---- MODULE Spec2Model ----
(***************************************************************************)
(* A model of the ED note formatter (src/app.py): the header-anchored      *)
(* section parser, the abbreviation pass, the upload loader and the        *)
(* "Format Data" handler.                                                  *)
(*                                                                         *)
(* A text is a sequence of one-character strings; indices into a text are  *)
(* 0-based offsets, as in the Python source, and Slice(s, a, b) is s[a:b]. *)
(* The character set is ASCII: letters, digits, punctuation, space, tab    *)
(* and newline.  Abbreviation terms are non-empty and replacement strings  *)
(* hold no backslash (re.sub would read one as a template escape).         *)
(***************************************************************************)
EXTENDS Integers, Sequences, FiniteSets, TLC

VARIABLES
    raw_text,            \* the text area's content (for the abbreviation
                         \* pass on its own: the body it starts from)
    uploaded_file,       \* the uploaded abbreviation file, or NoFile
    user_abbreviations,  \* the table object handed to format_ed_data
    extracted,           \* what st.write("Extracted Sections:", ...) showed
    structured_data,     \* the dict the last call returned
    outcome,             \* "none" | "returned" | "raised": how it ended
    first_request,       \* history: the first format request and its result
    applied,             \* how many abbreviation passes the dict has had
    once                 \* history: the dict after its first pass

vars == <<raw_text, uploaded_file, user_abbreviations, extracted,
          structured_data, outcome, first_request, applied, once>>

----------------------------------------------------------------------------
(* Characters and the string primitives of Python the code relies on.      *)

UpperCase == <<"A","B","C","D","E","F","G","H","I","J","K","L","M","N","O","P","Q","R","S","T","U","V","W","X","Y","Z">>

LowerCase == <<"a","b","c","d","e","f","g","h","i","j","k","l","m","n","o","p","q","r","s","t","u","v","w","x","y","z">>

Digits == <<"0","1","2","3","4","5","6","7","8","9">>

UpperToLower == [c \in {UpperCase[i] : i \in 1..26} |->
                   LowerCase[CHOOSE i \in 1..26 : UpperCase[i] = c]]

\* re.IGNORECASE compares characters up to case.
Lower(c) == IF c \in DOMAIN UpperToLower THEN UpperToLower[c] ELSE c

WordChars == {UpperCase[i] : i \in 1..26} \cup {LowerCase[i] : i \in 1..26}
             \cup {Digits[i] : i \in 1..10} \cup {"_"}

\* \w of the regex engine.
IsWord(c) == c \in WordChars

\* The characters str.strip() removes.
IsSpace(c) == c \in {" ", "\n", "\t"}

\* s[a:b] for 0 <= a, b <= len(s).
Slice(s, a, b) == IF b <= a THEN <<>> ELSE SubSeq(s, a + 1, b)

RECURSIVE lstrip(_)
lstrip(s) == IF s # <<>> /\ IsSpace(Head(s)) THEN lstrip(Tail(s)) ELSE s

RECURSIVE rstrip(_)
rstrip(s) == IF s # <<>> /\ IsSpace(s[Len(s)])
             THEN rstrip(SubSeq(s, 1, Len(s) - 1)) ELSE s

\* str.strip()
strip(s) == rstrip(lstrip(s))

\* A literal (re.escape'd or plain) matches text at offset pos, ignoring case.
MatchLiteralAt(text, pos, lit) ==
    /\ pos + Len(lit) <= Len(text)
    /\ \A k \in 1..Len(lit) : Lower(text[pos + k]) = Lower(lit[k])

\* re.sub(r"\n+", "\n", s): every run of newlines becomes one newline.
RECURSIVE CollapseNewlines(_)
CollapseNewlines(s) ==
    IF s = <<>> THEN <<>>
    ELSE IF Head(s) = "\n" /\ Len(s) > 1 /\ s[2] = "\n"
         THEN CollapseNewlines(Tail(s))
         ELSE <<Head(s)>> \o CollapseNewlines(Tail(s))

----------------------------------------------------------------------------
(* parse_sections                                                          *)

\* A pattern table in which "Vitals:" is a header of ED Vitals too.
section_patterns_with_vitals == <<
  [section |-> "Chief Complaint",
   alts |-> << <<"C","h","i","e","f"," ","C","o","m","p","l","a","i","n","t",":">>, <<"R","e","a","s","o","n"," ","f","o","r"," ","V","i","s","i","t",":">>, <<"C","C",":">> >>],
  [section |-> "HPI",
   alts |-> << <<"H","i","s","t","o","r","y"," ","o","f"," ","P","r","e","s","e","n","t"," ","I","l","l","n","e","s","s",":">>, <<"H","P","I",":">> >>],
  [section |-> "ROS",
   alts |-> << <<"R","e","v","i","e","w"," ","o","f"," ","S","y","s","t","e","m","s",":">>, <<"R","O","S",":">> >>],
  [section |-> "ED Vitals",
   alts |-> << <<"T","r","i","a","g","e"," ","V","i","t","a","l","s",":">>, <<"V","i","t","a","l"," ","S","i","g","n","s",":">>, <<"V","S",":">>, <<"V","i","t","a","l","s",":">> >>],
  [section |-> "Physical Exam",
   alts |-> << <<"P","h","y","s","i","c","a","l"," ","E","x","a","m",":">>, <<"P","E",":">>, <<"E","x","a","m",":">> >>],
  [section |-> "Labs & Imaging",
   alts |-> << <<"L","a","b","s",":">>, <<"L","a","b","o","r","a","t","o","r","y"," ","R","e","s","u","l","t","s",":">>, <<"T","e","s","t","s",":">>,
               <<"D","i","a","g","n","o","s","t","i","c","s",":">>, <<"I","m","a","g","i","n","g",":">>, <<"R","a","d","i","o","l","o","g","y",":">> >>],
  [section |-> "MDM",
   alts |-> << <<"M","e","d","i","c","a","l"," ","D","e","c","i","s","i","o","n"," ","M","a","k","i","n","g",":">>, <<"M","D","M",":">>, <<"E","D"," ","C","o","u","r","s","e",":">>,
               <<"A","s","s","e","s","s","m","e","n","t"," ","a","n","d"," ","P","l","a","n",":">> >>],
  [section |-> "Prior to Admission",
   alts |-> << <<"P","r","i","o","r"," ","t","o"," ","A","d","m","i","s","s","i","o","n",":">>, <<"P","a","s","t"," ","M","e","d","i","c","a","l"," ","H","i","s","t","o","r","y",":">>, <<"P","M","H",":">>,
               <<"P","r","e","v","i","o","u","s"," ","H","o","s","p","i","t","a","l","i","z","a","t","i","o","n","s",":">> >> ] >>

\* The section_patterns literal of format_ed_data, in declaration order;
\* alts is the alternation of header literals of the section's pattern.
section_patterns == <<
  [section |-> "Chief Complaint",
   alts |-> << <<"C","h","i","e","f"," ","C","o","m","p","l","a","i","n","t",":">>, <<"R","e","a","s","o","n"," ","f","o","r"," ","V","i","s","i","t",":">>, <<"C","C",":">> >>],
  [section |-> "HPI",
   alts |-> << <<"H","i","s","t","o","r","y"," ","o","f"," ","P","r","e","s","e","n","t"," ","I","l","l","n","e","s","s",":">>, <<"H","P","I",":">> >>],
  [section |-> "ROS",
   alts |-> << <<"R","e","v","i","e","w"," ","o","f"," ","S","y","s","t","e","m","s",":">>, <<"R","O","S",":">> >>],
  [section |-> "ED Vitals",
   alts |-> << <<"T","r","i","a","g","e"," ","V","i","t","a","l","s",":">>, <<"V","i","t","a","l"," ","S","i","g","n","s",":">>, <<"V","S",":">> >>],
  [section |-> "Physical Exam",
   alts |-> << <<"P","h","y","s","i","c","a","l"," ","E","x","a","m",":">>, <<"P","E",":">>, <<"E","x","a","m",":">> >>],
  [section |-> "Labs & Imaging",
   alts |-> << <<"L","a","b","s",":">>, <<"L","a","b","o","r","a","t","o","r","y"," ","R","e","s","u","l","t","s",":">>, <<"T","e","s","t","s",":">>,
               <<"D","i","a","g","n","o","s","t","i","c","s",":">>, <<"I","m","a","g","i","n","g",":">>, <<"R","a","d","i","o","l","o","g","y",":">> >>],
  [section |-> "MDM",
   alts |-> << <<"M","e","d","i","c","a","l"," ","D","e","c","i","s","i","o","n"," ","M","a","k","i","n","g",":">>, <<"M","D","M",":">>, <<"E","D"," ","C","o","u","r","s","e",":">>,
               <<"A","s","s","e","s","s","m","e","n","t"," ","a","n","d"," ","P","l","a","n",":">> >>],
  [section |-> "Prior to Admission",
   alts |-> << <<"P","r","i","o","r"," ","t","o"," ","A","d","m","i","s","s","i","o","n",":">>, <<"P","a","s","t"," ","M","e","d","i","c","a","l"," ","H","i","s","t","o","r","y",":">>, <<"P","M","H",":">>,
               <<"P","r","e","v","i","o","u","s"," ","H","o","s","p","i","t","a","l","i","z","a","t","i","o","n","s",":">> >> ] >>

\* section_patterns.keys()
SectionNames(patterns) == {patterns[i].section : i \in 1..Len(patterns)}

\* section_patterns[section]
PatternOf(patterns, section) ==
    patterns[CHOOSE i \in 1..Len(patterns) : patterns[i].section = section].alts

MissingData == <<"[","M","i","s","s","i","n","g"," ","D","a","t","a","]">>

\* An alternation (a|b|c) tried at offset pos: the end offset of the first
\* alternative, from alternative k on, that matches there, or -1.
RECURSIVE AltEnd(_, _, _, _)
AltEnd(alts, k, text, pos) ==
    IF k > Len(alts) THEN -1
    ELSE IF MatchLiteralAt(text, pos, alts[k]) THEN pos + Len(alts[k])
         ELSE AltEnd(alts, k + 1, text, pos)

\* combined_pattern tried at offset pos: the named groups are alternatives in
\* declaration order, so the first section, from section i on, whose pattern
\* matches at pos gives the match; end = -1 when none does.
RECURSIVE CombinedAt(_, _, _, _)
CombinedAt(patterns, i, text, pos) ==
    IF i > Len(patterns) THEN [section |-> "", start |-> pos, end |-> -1]
    ELSE LET e == AltEnd(patterns[i].alts, 1, text, pos)
         IN  IF e >= 0
             THEN [section |-> patterns[i].section, start |-> pos, end |-> e]
             ELSE CombinedAt(patterns, i + 1, text, pos)

\* list(combined_pattern.finditer(text)) from offset pos on: leftmost match,
\* then the scan resumes where the match ended.
RECURSIVE finditer(_, _, _)
finditer(patterns, text, pos) ==
    IF pos >= Len(text) THEN <<>>
    ELSE LET m == CombinedAt(patterns, 1, text, pos)
         IN  IF m.end >= 0
             THEN <<m>> \o finditer(patterns, text, m.end)
             ELSE finditer(patterns, text, pos + 1)

\* A slice that always runs to the end of the text.
EndIndexToEnd(matches, i, text) == Len(text)

\* end_index of match i: the start of the next match, or len(text).
EndIndex(matches, i, text) ==
    IF i + 1 <= Len(matches) THEN matches[i + 1].start ELSE Len(text)

\* The body stored for match i: the stripped slice, the section's header
\* removed from its front when header_regex.match finds it, stripped again.
SectionContent(patterns, matches, i, text) ==
    LET section_content == strip(Slice(text, matches[i].start,
                                       EndIndex(matches, i, text)))
        header_end == AltEnd(PatternOf(patterns, matches[i].section), 1,
                             section_content, 0)
    IN  IF header_end >= 0
        THEN strip(Slice(section_content, header_end, Len(section_content)))
        ELSE section_content

\* structured_data[section_found] = section_content: a dict assignment.
SetItem(d, key, value) == (key :> value) @@ d

\* The empty dict.
EmptyDict == [k \in {} |-> <<>>]

\* The loop over the matches, from match i on.
RECURSIVE ParseLoop(_, _, _, _, _)
ParseLoop(patterns, matches, i, text, sd) ==
    IF i > Len(matches) THEN sd
    ELSE ParseLoop(patterns, matches, i + 1, text,
                   SetItem(sd, matches[i].section,
                           SectionContent(patterns, matches, i, text)))

\* Every section not found is marked "[Missing Data]".
MarkMissing(patterns, sd) ==
    [s \in SectionNames(patterns) \cup DOMAIN sd |->
        IF s \in DOMAIN sd THEN sd[s] ELSE MissingData]

parse_sections(text, patterns) ==
    MarkMissing(patterns,
                ParseLoop(patterns, finditer(patterns, text, 0), 1, text,
                          EmptyDict))

----------------------------------------------------------------------------
(* apply_abbreviations, load_abbreviations, format_ed_data                 *)

\* A JSON value as json.loads returns it.  kind is "dict" for an object,
\* whose items keep their insertion order, and "list", "null", "number" or
\* "string" otherwise; is_str tells whether an item's value is a string.
Item(term, abbr) == [term |-> term, abbr |-> abbr, is_str |-> TRUE]

NonStringItem(term) == [term |-> term, abbr |-> <<>>, is_str |-> FALSE]

Dict(items) == [kind |-> "dict", items |-> items]

NonDict(kind) == [kind |-> kind, items |-> <<>>]

default_abbreviations == Dict(<<
    Item(<<"m","y","o","c","a","r","d","i","a","l"," ","i","n","f","a","r","c","t","i","o","n">>, <<"M","I">>),
    Item(<<"h","y","p","e","r","t","e","n","s","i","o","n">>, <<"H","T","N">>),
    Item(<<"d","i","a","b","e","t","e","s"," ","m","e","l","l","i","t","u","s">>, <<"D","M">>),
    Item(<<"c","h","r","o","n","i","c"," ","o","b","s","t","r","u","c","t","i","v","e"," ","p","u","l","m","o","n","a","r","y"," ","d","i","s","e","a","s","e">>, <<"C","O","P","D">>),
    Item(<<"c","e","r","e","b","r","o","v","a","s","c","u","l","a","r"," ","a","c","c","i","d","e","n","t">>, <<"C","V","A">>),
    Item(<<"a","c","u","t","e"," ","k","i","d","n","e","y"," ","i","n","j","u","r","y">>, <<"A","K","I">>),
    Item(<<"d","e","e","p"," ","v","e","i","n"," ","t","h","r","o","m","b","o","s","i","s">>, <<"D","V","T">>),
    Item(<<"p","u","l","m","o","n","a","r","y"," ","e","m","b","o","l","i","s","m">>, <<"P","E">>),
    Item(<<"c","h","r","o","n","i","c"," ","k","i","d","n","e","y"," ","d","i","s","e","a","s","e">>, <<"C","K","D">>),
    Item(<<"g","a","s","t","r","o","e","s","o","p","h","a","g","e","a","l"," ","r","e","f","l","u","x"," ","d","i","s","e","a","s","e">>, <<"G","E","R","D">>),
    Item(<<"a","t","r","i","a","l"," ","f","i","b","r","i","l","l","a","t","i","o","n">>, <<"A","F">>),
    Item(<<"c","o","n","g","e","s","t","i","v","e"," ","h","e","a","r","t"," ","f","a","i","l","u","r","e">>, <<"C","H","F">>),
    Item(<<"c","o","r","o","n","a","r","y"," ","a","r","t","e","r","y"," ","d","i","s","e","a","s","e">>, <<"C","A","D">>) >>)

\* An uploaded file: whether its bytes decode as UTF-8, whether the text is
\* JSON, and the value json.loads gives when both hold.
File(utf8, json, value) ==
    [present |-> TRUE, utf8 |-> utf8, json |-> json, value |-> value]

\* st.file_uploader returned None.
NoFile == [present |-> FALSE, utf8 |-> TRUE, json |-> TRUE,
           value |-> NonDict("null")]

\* json.loads(uploaded_file.read().decode("utf-8")); any exception gives the
\* default table.
load_abbreviations(file, default) ==
    IF file.utf8 /\ file.json THEN file.value ELSE default

\* The script's choice of user_abbreviations.
UserAbbreviations(file) ==
    IF file.present THEN load_abbreviations(file, default_abbreviations)
    ELSE default_abbreviations

\* Is the character at 0-based offset j of s a word character (no character
\* lies outside the string).
IsWordAt(s, j) == j >= 0 /\ j < Len(s) /\ IsWord(s[j + 1])

\* \b at offset i: exactly one side is a word character.
Boundary(s, i) == IsWordAt(s, i - 1) # IsWordAt(s, i)

\* rf"\b{re.escape(term)}\b" matches s at offset pos, ignoring case.
WordMatchAt(term, s, pos) ==
    /\ Boundary(s, pos)
    /\ MatchLiteralAt(s, pos, term)
    /\ Boundary(s, pos + Len(term))

\* pattern.search(s, pos): the offset of the leftmost match at or after
\* pos, or -1.
Search(term, s, pos) ==
    LET hits == {p \in pos..(Len(s) - Len(term)) : WordMatchAt(term, s, p)}
    IN  IF hits = {} THEN -1
        ELSE CHOOSE p \in hits : \A q \in hits : p <= q

\* re.sub(pattern, abbr, s) from offset pos on: every non-overlapping match,
\* leftmost first, is replaced by abbr; the text between matches is kept.
RECURSIVE re_sub(_, _, _, _)
re_sub(term, abbr, s, pos) ==
    LET p == Search(term, s, pos)
    IN  IF p < 0 THEN Slice(s, pos, Len(s))
        ELSE Slice(s, pos, p) \o abbr \o re_sub(term, abbr, s, p + Len(term))

\* The inner loop: the items of the table are applied to content one after
\* the other, in the order abbreviations.items() yields them, from item k on.
RECURSIVE SubstituteTerms(_, _, _)
SubstituteTerms(items, k, content) ==
    IF k > Len(items) THEN content
    ELSE SubstituteTerms(items, k + 1,
                         re_sub(items[k].term, items[k].abbr, content, 0))

\* apply_abbreviations raises: abbreviations.items() on a value that is no
\* dict (AttributeError), or re.sub with a replacement that is no string
\* (TypeError); either happens in the first iteration of the outer loop.
ApplyRaises(sd, abbreviations) ==
    /\ DOMAIN sd # {}
    /\ \/ abbreviations.kind # "dict"
       \/ \E k \in 1..Len(abbreviations.items) : ~abbreviations.items[k].is_str

\* The dict apply_abbreviations returns when it does not raise.
apply_abbreviations(sd, abbreviations) ==
    [s \in DOMAIN sd |-> SubstituteTerms(abbreviations.items, 1, sd[s])]

\* A pass that removes from the table the entry it applied first.
AbbreviationsAfterConsuming(abbreviations) ==
    IF abbreviations.kind = "dict" /\ abbreviations.items # <<>>
    THEN [abbreviations EXCEPT !.items = Tail(@)]
    ELSE abbreviations

\* The abbreviation table object after a call of format_ed_data: the code
\* only reads it.
AbbreviationsAfter(abbreviations) == abbreviations

\* {"Error": "No data provided"}
ErrorResult == "Error" :> <<"N","o"," ","d","a","t","a"," ","p","r","o","v","i","d","e","d">>

\* A guard that forgets to strip: not text
IsBlankUnstripped(text) == text = <<>>

\* not text.strip()
IsBlank(text) == strip(text) = <<>>

\* text = re.sub(r"\n+", "\n", text.strip())
NormalizeNewlines(text) == CollapseNewlines(strip(text))

\* What st.write("Extracted Sections:", ...) shows: the dict parse_sections
\* returned, or nothing (the empty dict) when the call is not reached.
Extracted(text) ==
    IF IsBlank(text) THEN EmptyDict
    ELSE parse_sections(NormalizeNewlines(text), section_patterns)

\* format_ed_data(text, abbreviations): outcome is "raised" when an exception
\* leaves the function and "returned" otherwise; value is the dict returned;
\* written is what st.write showed on the way.
format_ed_data(text, abbreviations) ==
    IF IsBlank(text)
    THEN [outcome |-> "returned", value |-> ErrorResult, written |-> EmptyDict]
    ELSE LET sd == Extracted(text)
         IN  IF ApplyRaises(sd, abbreviations)
             THEN [outcome |-> "raised", value |-> EmptyDict, written |-> sd]
             ELSE [outcome |-> "returned",
                   value |-> apply_abbreviations(sd, abbreviations),
                   written |-> sd]

----------------------------------------------------------------------------
(* Inputs                                                                  *)

\* Every concatenation of at most n of the tokens.
RECURSIVE TokenTexts(_, _)
TokenTexts(tokens, n) ==
    IF n = 0 THEN {<<>>}
    ELSE LET shorter == TokenTexts(tokens, n - 1)
         IN  shorter \cup {s \o t : s \in shorter, t \in tokens}

MaxSessionTokens == 2

MaxTokens == 4

MaxBodyTokens == 3

MaxItems == 2

MaxApply == 2

\* Texts typed in a session: blank ones, and notes with a header and a body
\* that holds a term of the default table.
SessionTexts ==
    TokenTexts({ <<" ">>, <<"C","C",":"," ","h","y","p","e","r","t","e","n","s","i","o","n">> }, MaxSessionTokens)

HypertensionTable == Dict(<< Item(<<"h","y","p","e","r","t","e","n","s","i","o","n">>, <<"H","B","P">>) >>)

\* Uploads: an object of strings, an array, an object with a number in it,
\* text that is no JSON.
SessionFiles == {
    File(TRUE, TRUE, HypertensionTable),
    File(TRUE, TRUE, NonDict("list")),
    File(TRUE, TRUE, Dict(<< NonStringItem(<<"h","y","p","e","r","t","e","n","s","i","o","n">>) >>)),
    File(TRUE, FALSE, NonDict("null")) }

\* The example note of the specification's section 8.
ExampleNote ==
    <<"C","C",":"," ","c","h","e","s","t"," ","p","a","i","n","."," ","H","P","I",":"," ","p","a","i","n"," ","s","t","a","r","t","e","d"," ","2"," ","h","o","u","r","s"," ","a","g","o","."," ","V","i","t","a","l","s",":"," ","B","P"," ","1","4","0","/","9","0",","," ","H","R"," ","8","8",".">>

\* Notes for format_ed_data on its own: headers in either case and order,
\* repeated headers, text before the first header, blanks and newlines.
FormatTexts ==
    TokenTexts({ <<"C","C",":">>, <<"h","p","i",":">>, <<" ">>, <<"\n">>, <<"x">> }, MaxTokens)
    \cup {ExampleNote}

\* Tables for it: the default one, one that abbreviates the body word, one
\* with a term that is a word of the "[Missing Data]" mark, an array, and
\* bytes that are no UTF-8 (the default table again).
FormatFiles == {
    NoFile,
    File(TRUE, TRUE, Dict(<< Item(<<"x">>, <<"y">>) >>)),
    File(TRUE, TRUE, Dict(<< Item(<<"d","a","t","a">>, <<"D">>) >>)),
    File(TRUE, TRUE, NonDict("list")),
    File(FALSE, FALSE, NonDict("null")) }

\* Section bodies for the abbreviation pass on its own.
ExampleBody == <<"a","c","u","t","e"," ","m","y","o","c","a","r","d","i","a","l"," ","i","n","f","a","r","c","t","i","o","n"," ","n","o","t","e","d">>

AbbrBodies ==
    TokenTexts({ <<"m","y","o","c","a","r","d","i","a","l"," ","i","n","f","a","r","c","t","i","o","n">>, <<"i","n","f","a","r","c","t","i","o","n">>, <<" ">>,
                 <<"s">>, <<"M","I">> }, MaxBodyTokens)
    \cup {ExampleBody}

\* Table entries: a term, a term contained in it, and a term that is the
\* abbreviation of another entry.
AbbrItems == {
    Item(<<"m","y","o","c","a","r","d","i","a","l"," ","i","n","f","a","r","c","t","i","o","n">>, <<"M","I">>),
    Item(<<"i","n","f","a","r","c","t","i","o","n">>, <<"I","N","F">>),
    Item(<<"M","I">>, <<"h","e","a","r","t"," ","a","t","t","a","c","k">>) }

\* Every table of at most n of the entries, in every insertion order.
RECURSIVE ItemSeqs(_)
ItemSeqs(n) ==
    IF n = 0 THEN {<<>>}
    ELSE LET shorter == ItemSeqs(n - 1)
         IN  shorter \cup
             {Append(s, it) : s \in shorter,
                              it \in AbbrItems}

HasDistinctTerms(items) ==
    \A i, j \in 1..Len(items) : items[i].term = items[j].term => i = j

AbbrTables == {Dict(s) : s \in {q \in ItemSeqs(MaxItems) : HasDistinctTerms(q)}}

----------------------------------------------------------------------------
(* The script: every widget interaction reruns it.                         *)

\* No format request was made yet.  others tells whether a request for a
\* different text or table followed the first one.
NoRequest == [set |-> FALSE, text |-> <<>>, file |-> NoFile,
              outcome |-> "none", value |-> EmptyDict, others |-> FALSE]

\* What the button's branch shows for the dict format_ed_data returned.
Display(sd) == IF "Error" \in DOMAIN sd THEN "error" ELSE "sections"

Init ==
    /\ raw_text = <<>>
    /\ uploaded_file = NoFile
    /\ user_abbreviations = UserAbbreviations(NoFile)
    /\ extracted = EmptyDict
    /\ structured_data = EmptyDict
    /\ outcome = "none"
    /\ first_request = NoRequest
    /\ applied = 0
    /\ once = EmptyDict

\* The text area changes: a run in which the button is not pressed.
EnterText(t) ==
    /\ t # raw_text
    /\ raw_text' = t
    /\ extracted' = EmptyDict
    /\ structured_data' = EmptyDict
    /\ outcome' = "none"
    /\ UNCHANGED <<uploaded_file, user_abbreviations, first_request, applied, once>>

\* A file is uploaded: the run loads user_abbreviations from it.
Upload(f) ==
    /\ f # uploaded_file
    /\ uploaded_file' = f
    /\ user_abbreviations' = UserAbbreviations(f)
    /\ extracted' = EmptyDict
    /\ structured_data' = EmptyDict
    /\ outcome' = "none"
    /\ UNCHANGED <<raw_text, first_request, applied, once>>

\* The upload is removed: the run takes the default table.
RemoveUpload ==
    /\ uploaded_file.present
    /\ uploaded_file' = NoFile
    /\ user_abbreviations' = UserAbbreviations(NoFile)
    /\ extracted' = EmptyDict
    /\ structured_data' = EmptyDict
    /\ outcome' = "none"
    /\ UNCHANGED <<raw_text, first_request, applied, once>>

\* "Format Data" is pressed: format_ed_data(raw_text, user_abbreviations).
FormatData ==
    LET r == format_ed_data(raw_text, user_abbreviations)
    IN  /\ outcome' = r.outcome
        /\ structured_data' = r.value
        /\ extracted' = r.written
        /\ user_abbreviations' = AbbreviationsAfter(user_abbreviations)
        /\ first_request' =
              IF first_request.set
              THEN [first_request EXCEPT !.others =
                        @ \/ first_request.text # raw_text
                          \/ first_request.file # uploaded_file]
              ELSE [set |-> TRUE, text |-> raw_text, file |-> uploaded_file,
                    outcome |-> r.outcome, value |-> r.value,
                    others |-> FALSE]
        /\ UNCHANGED <<raw_text, uploaded_file, applied, once>>

Next ==
    \/ \E t \in SessionTexts : EnterText(t)
    \/ \E f \in SessionFiles : Upload(f)
    \/ RemoveUpload
    \/ FormatData

Spec == Init /\ [][Next]_vars

----------------------------------------------------------------------------
(* format_ed_data on its own: the inputs are drawn, the call is made.      *)

InitFormat ==
    /\ raw_text \in FormatTexts
    /\ uploaded_file \in FormatFiles
    /\ user_abbreviations = UserAbbreviations(uploaded_file)
    /\ extracted = EmptyDict
    /\ structured_data = EmptyDict
    /\ outcome = "none"
    /\ first_request = NoRequest
    /\ applied = 0
    /\ once = EmptyDict

NextFormat == FormatData

SpecFormat == InitFormat /\ [][NextFormat]_vars

----------------------------------------------------------------------------
(* apply_abbreviations on its own, applied to a note and to its own output. *)

InitAbbr ==
    /\ raw_text \in AbbrBodies
    /\ user_abbreviations \in AbbrTables
    /\ uploaded_file = File(TRUE, TRUE, user_abbreviations)
    /\ extracted = EmptyDict
    /\ structured_data = ("HPI" :> raw_text) @@ ("ROS" :> MissingData)
    /\ outcome = "none"
    /\ first_request = NoRequest
    /\ applied = 0
    /\ once = EmptyDict

\* structured_data = apply_abbreviations(structured_data, abbreviations)
ApplyAbbreviations ==
    /\ applied < MaxApply
    /\ ~ApplyRaises(structured_data, user_abbreviations)
    /\ structured_data' = apply_abbreviations(structured_data, user_abbreviations)
    /\ applied' = applied + 1
    /\ once' = IF applied = 0 THEN structured_data' ELSE once
    /\ outcome' = "returned"
    /\ UNCHANGED <<raw_text, uploaded_file, user_abbreviations, extracted,
                   first_request>>

NextAbbr == ApplyAbbreviations

SpecAbbr == InitAbbr /\ [][NextAbbr]_vars

----------------------------------------------------------------------------
(* What the properties speak of, stated without the parser: where headers  *)
(* occur in a text, and the text between them.                             *)

ConfiguredSections == {"Chief Complaint", "HPI", "ROS", "ED Vitals",
                       "Physical Exam", "Labs & Imaging", "MDM",
                       "Prior to Admission"}

AllWhitespace(text) == \A i \in 1..Len(text) : text[i] \in {" ", "\n", "\t"}

\* The header literals of a section.
HeadersOf(section) == PatternOf(section_patterns, section)

\* Some header of the section stands at offset p of text.
OccursAt(section, text, p) ==
    \E k \in 1..Len(HeadersOf(section)) :
        MatchLiteralAt(text, p, HeadersOf(section)[k])

\* The offsets at which a header of the section occurs in text.
Occurrences(section, text) ==
    {p \in 0..(Len(text) - 1) : OccursAt(section, text, p)}

AllOccurrences(text) ==
    UNION {Occurrences(s, text) : s \in ConfiguredSections}

Min(S) == CHOOSE x \in S : \A y \in S : x <= y

\* The length of the header that stands at offset p.
HeaderLenAt(text, p) ==
    LET s == CHOOSE s \in ConfiguredSections : OccursAt(s, text, p)
        k == CHOOSE k \in 1..Len(HeadersOf(s)) :
                 MatchLiteralAt(text, p, HeadersOf(s)[k])
    IN  Len(HeadersOf(s)[k])

\* Where the next header after the one at p starts, or the end of the text.
NextHeaderStart(text, p) ==
    LET later == {q \in AllOccurrences(text) : q > p}
    IN  IF later = {} THEN Len(text) ELSE Min(later)

\* The text after the header at p and before the next header, trimmed.
BodyAfter(text, p) ==
    strip(Slice(text, p + HeaderLenAt(text, p), NextHeaderStart(text, p)))

\* The text before the first header (all of it when there is none), trimmed.
Preamble(text) ==
    strip(Slice(text, 0, IF AllOccurrences(text) = {} THEN Len(text)
                         ELSE Min(AllOccurrences(text))))

EachHeaderAtMostOnce(text) ==
    \A s \in ConfiguredSections : Cardinality(Occurrences(s, text)) <= 1

\* The text parse_sections is handed for the note in the text area.
ParsedText == NormalizeNewlines(raw_text)

\* A format request on a note that is not blank has returned.
Formatted == outcome = "returned" /\ ~AllWhitespace(raw_text)

----------------------------------------------------------------------------
(* Properties                                                              *)

\* C1: for a text that is empty or all whitespace, whatever the table, the
\* request returns the mapping whose only key is "Error", the error branch is
\* shown, and neither parse_sections nor apply_abbreviations has run: no
\* extracted sections were written and no section name is a key.
C1_BlankInputIsError ==
    (outcome # "none" /\ AllWhitespace(raw_text)) =>
        /\ outcome = "returned"
        /\ DOMAIN structured_data = {"Error"}
        /\ Display(structured_data) = "error"
        /\ extracted = EmptyDict

\* C1's case: a format request for a text of blanks and newlines, with a
\* table that apply_abbreviations could not even iterate.
C1_Witness ==
    /\ outcome # "none"
    /\ AllWhitespace(raw_text)
    /\ \E i, j \in 1..Len(raw_text) : raw_text[i] = " " /\ raw_text[j] = "\n"
    /\ user_abbreviations.kind # "dict"

\* C2 (as claimed): in header mode the text no header claims -- the text
\* before the first header, or all of it when there is no header -- is in the
\* result under Uncategorized (with the abbreviations applied, as in every
\* other body).
C2_UnclaimedIsUncategorized ==
    (Formatted /\ Preamble(ParsedText) # <<>>) =>
        /\ "Uncategorized" \in DOMAIN structured_data
        /\ structured_data["Uncategorized"] =
              SubstituteTerms(user_abbreviations.items, 1, Preamble(ParsedText))

\* C3 (as claimed): for a note that is not blank the result has exactly one
\* entry per configured section, and a section whose header occurs nowhere in
\* the input has exactly "[Missing Data]", whatever the abbreviation table.
C3_MissingSectionsKeepSentinel ==
    Formatted =>
        /\ DOMAIN structured_data = ConfiguredSections
        /\ \A s \in ConfiguredSections :
              Occurrences(s, raw_text) = {} => structured_data[s] = MissingData

\* The result of the example note: the three bodies given, "[Missing Data]"
\* for every other configured section.
ExampleResult(cc, hpi, vitals) ==
    [s \in ConfiguredSections |->
        CASE s = "Chief Complaint" -> cc
          [] s = "HPI" -> hpi
          [] s = "ED Vitals" -> vitals
          [] OTHER -> MissingData]

\* The example note was formatted with the default abbreviation table.
C4_Witness ==
    /\ raw_text = ExampleNote
    /\ uploaded_file = NoFile
    /\ outcome = "returned"
    /\ structured_data["Chief Complaint"] = <<"c","h","e","s","t"," ","p","a","i","n",".">>

\* C4 (as claimed): the example note yields Chief Complaint "chest pain.",
\* HPI "pain started 2 hours ago.", ED Vitals "BP 140/90, HR 88." and
\* "[Missing Data]" elsewhere.
C4_ExampleAsClaimed ==
    (raw_text = ExampleNote /\ uploaded_file = NoFile /\ outcome = "returned") =>
        structured_data = ExampleResult(<<"c","h","e","s","t"," ","p","a","i","n",".">>,
                                        <<"p","a","i","n"," ","s","t","a","r","t","e","d"," ","2"," ","h","o","u","r","s"," ","a","g","o",".">>,
                                        <<"B","P"," ","1","4","0","/","9","0",","," ","H","R"," ","8","8",".">>)

\* C4 (amended): "Vitals:" is not a header of ED Vitals (its headers are
\* "Triage Vitals:", "Vital Signs:" and "VS:"), so the example note yields
\* Chief Complaint "chest pain.", HPI "pain started 2 hours ago. Vitals: BP
\* 140/90, HR 88." and "[Missing Data]" for every other section, ED Vitals
\* included.
C4_ExampleAmended ==
    (raw_text = ExampleNote /\ uploaded_file = NoFile /\ outcome = "returned") =>
        structured_data =
            ExampleResult(<<"c","h","e","s","t"," ","p","a","i","n",".">>,
                          <<"p","a","i","n"," ","s","t","a","r","t","e","d"," ","2"," ","h","o","u","r","s"," ","a","g","o","."," ","V","i","t","a","l","s",":"," ","B","P"," ","1","4","0","/","9","0",","," ","H","R"," ","8","8",".">>,
                          MissingData)

\* C5 (as claimed): the body extracted for a section is the one that follows
\* the first occurrence of its header, also when the header occurs again.
C5_FirstOccurrenceWins ==
    Formatted =>
        \A s \in ConfiguredSections :
            Occurrences(s, ParsedText) # {} =>
                extracted[s] = BodyAfter(ParsedText, Min(Occurrences(s, ParsedText)))

\* C6: when every section's header occurs at most once in the text handed to
\* parse_sections, the body extracted for each section found is the text
\* after its header and before the start of the next header in text order
\* (or the end of the text), trimmed, the header itself not included.
C6_BodyRunsToNextHeader ==
    (Formatted /\ EachHeaderAtMostOnce(ParsedText)) =>
        \A s \in ConfiguredSections :
            \A p \in Occurrences(s, ParsedText) :
                extracted[s] = BodyAfter(ParsedText, p)

\* C6's case: HPI's header stands before Chief Complaint's, against the
\* declaration order, and HPI's body is what lies between them, shorter than
\* the gap because blanks were trimmed.
C6_Witness ==
    /\ Formatted
    /\ EachHeaderAtMostOnce(ParsedText)
    /\ \E p \in Occurrences("HPI", ParsedText) :
       \E q \in Occurrences("Chief Complaint", ParsedText) :
          /\ p < q
          /\ extracted["HPI"] # <<>>
          /\ Len(extracted["HPI"]) < q - (p + HeaderLenAt(ParsedText, p))

\* A table's entries, longest term first (entries of equal length keep their
\* order): entry it is put into the sorted sequence s.
RECURSIVE InsertByLength(_, _)
InsertByLength(s, it) ==
    IF s = <<>> THEN <<it>>
    ELSE IF Len(it.term) > Len(Head(s).term) THEN <<it>> \o s
         ELSE <<Head(s)>> \o InsertByLength(Tail(s), it)

RECURSIVE LongestFirst(_)
LongestFirst(items) ==
    IF items = <<>> THEN <<>>
    ELSE InsertByLength(LongestFirst(SubSeq(items, 1, Len(items) - 1)),
                        items[Len(items)])

\* No entry's abbreviation holds a term of the table as a whole word.
ChainFree(items) ==
    \A i, j \in 1..Len(items) :
        \A p \in 0..Len(items[i].abbr) :
            ~WordMatchAt(items[j].term, items[i].abbr, p)

\* C7 (as claimed): whatever the order in which the table stores its entries,
\* a pass substitutes longer terms before shorter ones, so a body comes out
\* as from the pass over the entries sorted longest term first.
C7_LongerTermsFirst ==
    (applied >= 1 /\ ChainFree(user_abbreviations.items)) =>
        once["HPI"] = SubstituteTerms(LongestFirst(user_abbreviations.items), 1,
                                      raw_text)

\* C8 (as claimed): a second pass over the output of the first changes no
\* section body.
C8_Idempotent == applied = 2 => structured_data = once

\* A term-to-abbreviation mapping: a JSON object whose values are strings.
IsStringMapping(v) ==
    v.kind = "dict" /\ \A k \in 1..Len(v.items) : v.items[k].is_str

\* C9 (as claimed): at a format request for a note that is not blank, the
\* table handed to the core is a mapping of strings -- the parsed upload when
\* that is a JSON object of strings, the default table otherwise -- and the
\* request returns a structured note instead of ending in an exception.
C9_NeverAborts ==
    (outcome # "none" /\ ~AllWhitespace(raw_text)) =>
        /\ user_abbreviations =
              IF /\ uploaded_file.present /\ uploaded_file.utf8
                 /\ uploaded_file.json /\ IsStringMapping(uploaded_file.value)
              THEN uploaded_file.value
              ELSE default_abbreviations
        /\ outcome = "returned"
        /\ DOMAIN structured_data = ConfiguredSections

============================================================================
